---- MODULE Spec2Model ----
(***************************************************************************)
(* Model of samsung_health.py: OxygenSaturationParser and its helpers.     *)
(*                                                                         *)
(* Python values are modelled as tagged records:                           *)
(*   a str    is [kind |-> "str", chars |-> <<"9", "5">>]                  *)
(*   an int   is [kind |-> "int", val |-> n]                               *)
(*   a float  is [kind |-> "float", val |-> n], n counted in 1/Units       *)
(*   None     is [kind |-> "none"]                                         *)
(* A datetime is an integer number of milliseconds since the epoch.        *)
(* A dict (a csv row, a json record) is a function whose DOMAIN is its key *)
(* set; reading a key outside the DOMAIN raises KeyError.                  *)
(* A call that can raise returns Ok(value) or Raise(name).                 *)
(***************************************************************************)
EXTENDS Integers, Sequences, FiniteSets, TLC

VARIABLES
  csvFiles,     \* the csv files on disk: path -> [first, fieldnames, lines]
  jsonFiles,    \* the json files on disk: path -> list of records
  localOffset,  \* offset of the local time zone from UTC, in milliseconds
  parser,       \* the parser object (self): [filename, title]
  pc,           \* where load is: "idle", "rows", "done" (returned), "error"
  rowIdx,       \* number of rows the DictReader has handed out
  oxygens,      \* the local list of load
  result,       \* what the last load returned or raised
  accumulated,  \* history: the list of the last load as it was before the sort
  calls,        \* history: the filenames load was called with, in order
  history,      \* history: filename -> what the first completed load returned
  call          \* history: the last call of loadRow, parseRow, loadJson, parseJson

vars == << csvFiles, jsonFiles, localOffset, parser, pc, rowIdx, oxygens,
           result, accumulated, calls, history, call >>

\* Fixed-point resolution of a float: 1.0 is Units, so 92.5 is 370.
Units == 4

\* Bounds of the model.
MaxRecs == 2
MaxRows == 2
MaxLoads == 3

PyStr(chars) == [kind |-> "str", chars |-> chars]
PyInt(n) == [kind |-> "int", val |-> n]
PyFloat(n) == [kind |-> "float", val |-> n]
None == [kind |-> "none"]

Ok(v) == [ok |-> TRUE, val |-> v]
Raise(e) == [ok |-> FALSE, exc |-> e]

\* Python truth value of a str, an int, a float or None.
Truthy(v) ==
  CASE v.kind = "str" -> v.chars # <<>>
    [] v.kind \in {"int", "float"} -> v.val # 0
    [] v.kind = "none" -> FALSE

Digits == {"0", "1", "2", "3", "4", "5", "6", "7", "8", "9"}

DigitVal(c) ==
  CASE c = "0" -> 0 [] c = "1" -> 1 [] c = "2" -> 2 [] c = "3" -> 3
    [] c = "4" -> 4 [] c = "5" -> 5 [] c = "6" -> 6 [] c = "7" -> 7
    [] c = "8" -> 8 [] c = "9" -> 9

AllDigits(s) == \A i \in 1..Len(s) : s[i] \in Digits

RECURSIVE DigitsVal(_)
DigitsVal(s) ==
  IF s = <<>> THEN 0
  ELSE 10 * DigitsVal(SubSeq(s, 1, Len(s) - 1)) + DigitVal(s[Len(s)])

RECURSIVE Pow10(_)
Pow10(n) == IF n = 0 THEN 1 ELSE 10 * Pow10(n - 1)

\* The value of <ip>.<fp>; a fraction is exact when it is a multiple of
\* 1/Units.
DecimalOf(ip, fp) ==
  IF AllDigits(ip) /\ AllDigits(fp) /\ Len(ip) + Len(fp) > 0
    THEN Ok(PyFloat(Units * DigitsVal(ip)
                    + (Units * DigitsVal(fp)) \div Pow10(Len(fp))))
    ELSE Raise("ValueError")

SplitAt(s, dots) ==
  IF dots = {} THEN DecimalOf(s, <<>>)
  ELSE IF Cardinality(dots) > 1 THEN Raise("ValueError")
  ELSE DecimalOf(SubSeq(s, 1, (CHOOSE j \in dots : TRUE) - 1),
                 SubSeq(s, (CHOOSE j \in dots : TRUE) + 1, Len(s)))

\* float(x) on the decimal notation digits[.digits]
ParseDecimal(s) == SplitAt(s, {i \in 1..Len(s) : s[i] = "."})

\* float(x) of a str, an int, a float or None.
Float(v) ==
  CASE v.kind = "str" -> ParseDecimal(v.chars)
    [] v.kind = "int" -> Ok(PyFloat(Units * v.val))
    [] v.kind = "float" -> Ok(v)
    [] v.kind = "none" -> Raise("TypeError")

flot(s) == IF Truthy(s) THEN Float(s) ELSE Ok(None)

\* Days from 1970-01-01 to the civil date y-m-d.
DaysFromCivil(y, m, d) ==
  LET yy == IF m <= 2 THEN y - 1 ELSE y
      era == yy \div 400
      yoe == yy - era * 400
      mp == IF m > 2 THEN m - 3 ELSE m + 9
      doy == (153 * mp + 2) \div 5 + d - 1
      doe == yoe * 365 + yoe \div 4 - yoe \div 100 + doy
  IN era * 146097 + doe - 719468

IsLeap(y) == (y % 4 = 0 /\ y % 100 # 0) \/ y % 400 = 0

DaysInMonth(y, m) ==
  IF m = 2 THEN (IF IsLeap(y) THEN 29 ELSE 28)
  ELSE IF m \in {4, 6, 9, 11} THEN 30 ELSE 31

\* The datetime of the fields of a time text, or ValueError when a field is
\* out of range.
MakeTime(y, mo, d, h, mi, sec, us) ==
  IF /\ y >= 1 /\ mo \in 1..12 /\ d \in 1..DaysInMonth(y, mo)
     /\ h < 24 /\ mi < 60 /\ sec < 60
    THEN Ok(((DaysFromCivil(y, mo, d) * 24 + h) * 60 + mi) * 60000
            + sec * 1000 + us \div 1000)
    ELSE Raise("ValueError")

\* The text s has the shape dddd-dd-dd dd:dd:dd.d..d
TimeShape(s) ==
  /\ Len(s) \in 21..26
  /\ s[5] = "-" /\ s[8] = "-" /\ s[11] = " "
  /\ s[14] = ":" /\ s[17] = ":" /\ s[20] = "."
  /\ \A i \in (1..Len(s)) \ {5, 8, 11, 14, 17, 20} : s[i] \in Digits

StrpTime(s) ==
  IF ~TimeShape(s) THEN Raise("ValueError")
  ELSE MakeTime(DigitsVal(SubSeq(s, 1, 4)), DigitsVal(SubSeq(s, 6, 7)),
                DigitsVal(SubSeq(s, 9, 10)), DigitsVal(SubSeq(s, 12, 13)),
                DigitsVal(SubSeq(s, 15, 16)), DigitsVal(SubSeq(s, 18, 19)),
                DigitsVal(SubSeq(s, 21, Len(s))) * Pow10(26 - Len(s)))

\* datetime.strptime(timeStr, "%Y-%m-%d %H:%M:%S.%f") on the fixed-width
\* notation YYYY-MM-DD HH:MM:SS.f..f (1 to 6 fraction digits).
parseSamsungTime(timeStr) ==
  IF timeStr.kind # "str" THEN Raise("TypeError") ELSE StrpTime(timeStr.chars)

\* HealthConstants.OxygenSaturation: the csv column names.
START_TIME == "com.samsung.health.oxygen_saturation.start_time"
END_TIME == "com.samsung.health.oxygen_saturation.end_time"
SPO2 == "com.samsung.health.oxygen_saturation.spo2"
HEART_RATE == "com.samsung.health.oxygen_saturation.heart_rate"
LOW_DURATION == "com.samsung.health.oxygen_saturation.low_duration"
BINNING == "com.samsung.health.oxygen_saturation.binning"
MAX_SPO2 == "com.samsung.health.oxygen_saturation.max"
MIN_SPO2 == "com.samsung.health.oxygen_saturation.min"

\* The first exception of a sequence of evaluations, in evaluation order.
FirstRaise(steps) ==
  steps[CHOOSE i \in 1..Len(steps) :
          ~steps[i].ok /\ \A j \in 1..(i - 1) : steps[j].ok]

AllOk(steps) == \A i \in 1..Len(steps) : steps[i].ok

\* class OxygenSaturation
OxygenSaturation(start, end, spo2min, spo2max, spo2, heart, low_duration) ==
  [start |-> start, end |-> end, min |-> spo2min, max |-> spo2max,
   avg |-> spo2, heart |-> heart, low_duration |-> low_duration]

sufficientNoAvg(oxy) == Truthy(oxy.min) /\ Truthy(oxy.max)

sufficient(oxy) == (Truthy(oxy.min) /\ Truthy(oxy.max)) \/ Truthy(oxy.avg)

\* rowdict[key] parsed as a time; replace(tzinfo=utc) keeps the instant.
TimeOf(rowdict, key) ==
  IF key \in DOMAIN rowdict THEN parseSamsungTime(rowdict[key])
  ELSE Raise("KeyError")

\* flot(rowdict[key])
FlotOf(rowdict, key) ==
  IF key \in DOMAIN rowdict THEN flot(rowdict[key]) ELSE Raise("KeyError")

\* The constructor call of parseRow on its evaluated arguments.
parseRowMake(steps) ==
  IF AllOk(steps)
    THEN Ok(OxygenSaturation(steps[1].val, steps[2].val, steps[3].val,
                             steps[4].val, steps[5].val, steps[6].val,
                             steps[7].val))
    ELSE FirstRaise(steps)

parseRow(rowdict) ==
  parseRowMake(<< TimeOf(rowdict, START_TIME), TimeOf(rowdict, END_TIME),
                  FlotOf(rowdict, MIN_SPO2), FlotOf(rowdict, MAX_SPO2),
                  FlotOf(rowdict, SPO2), FlotOf(rowdict, HEART_RATE),
                  FlotOf(rowdict, LOW_DURATION) >>)

\* datetime.fromtimestamp(ms / 1000).replace(tzinfo=timezone.utc): the local
\* wall-clock time of the instant, relabelled as UTC; tz is the local zone's
\* offset from UTC in milliseconds.
FromTimestamp(ms, tz) ==
  IF ms.kind \in {"int", "float"} THEN Ok(ms.val + tz) ELSE Raise("TypeError")

StampOf(record, key, tz) ==
  IF key \in DOMAIN record THEN FromTimestamp(record[key], tz)
  ELSE Raise("KeyError")

\* (oxy2.min + oxy2.max) / 2
Midpoint(oxy2) == PyFloat((oxy2.min.val + oxy2.max.val) \div 2)

parseJsonMidpointNever(oxy2) == oxy2

\* "if not oxy2.avg: oxy2.avg = (oxy2.min + oxy2.max) / 2"
parseJsonMidpoint(oxy2) ==
  IF ~Truthy(oxy2.avg) THEN [oxy2 EXCEPT !.avg = Midpoint(oxy2)] ELSE oxy2

\* The assignments of min and max from their converted values.
parseJsonSetMinMax(oxy2, mn, mx) ==
  IF ~mn.ok THEN mn
  ELSE IF ~mx.ok THEN mx
  ELSE Ok(parseJsonMidpoint([oxy2 EXCEPT !.min = mn.val, !.max = mx.val]))

parseJsonMinMaxKeeps(oxy2, record) ==
  IF "spo2_min" \notin DOMAIN record THEN Raise("KeyError")
  ELSE IF ~Truthy(record["spo2_min"]) THEN Ok(oxy2)
  ELSE IF "spo2_max" \notin DOMAIN record THEN Raise("KeyError")
  ELSE IF ~Truthy(record["spo2_max"]) THEN Ok(oxy2)
  ELSE parseJsonSetMinMax(oxy2, flot(record["spo2_min"]),
                          flot(record["spo2_max"]))

\* "if record['spo2_min'] and record['spo2_max']: ... else: ..."
parseJsonMinMax(oxy2, record) ==
  IF "spo2_min" \notin DOMAIN record THEN Raise("KeyError")
  ELSE IF ~Truthy(record["spo2_min"])
    THEN Ok([oxy2 EXCEPT !.min = None, !.max = None])
  ELSE IF "spo2_max" \notin DOMAIN record THEN Raise("KeyError")
  ELSE IF ~Truthy(record["spo2_max"])
    THEN Ok([oxy2 EXCEPT !.min = None, !.max = None])
  ELSE parseJsonSetMinMax(oxy2, flot(record["spo2_min"]),
                          flot(record["spo2_max"]))

\* "if record['spo2']: oxy2.avg = flot(record['spo2'])", avg being its value.
parseJsonSetAvg(oxy2, avg, record) ==
  IF ~avg.ok THEN avg
  ELSE parseJsonMinMax([oxy2 EXCEPT !.avg = avg.val], record)

parseJsonAvg(oxy2, record) ==
  IF "spo2" \notin DOMAIN record THEN Raise("KeyError")
  ELSE IF Truthy(record["spo2"])
    THEN parseJsonSetAvg(oxy2, flot(record["spo2"]), record)
    ELSE parseJsonMinMax(oxy2, record)

\* The copy of base with start and end replaced, and the rest of parseJson.
parseJsonCopy(base, start, end, record) ==
  IF ~start.ok THEN start
  ELSE IF ~end.ok THEN end
  ELSE parseJsonAvg([base EXCEPT !.start = start.val, !.end = end.val], record)

parseJson(base, record, tz) ==
  parseJsonCopy(base, StampOf(record, "start_time", tz),
                StampOf(record, "end_time", tz), record)

\* "if oxy2 and oxy2.sufficient(): oxygens.append(oxy2)"; an object is truthy.
loadJsonKeep(xs, oxy2) ==
  IF ~xs.ok THEN xs
  ELSE IF ~oxy2.ok THEN oxy2
  ELSE IF sufficient(oxy2.val) THEN Ok(Append(xs.val, oxy2.val))
  ELSE xs

\* The loop of loadJson over the records of the file.
RECURSIVE loadBins(_, _, _)
loadBins(base, bins, tz) ==
  IF bins = <<>> THEN Ok(<<>>)
  ELSE loadJsonKeep(loadBins(base, SubSeq(bins, 1, Len(bins) - 1), tz),
                    parseJson(base, bins[Len(bins)], tz))

\* sidefiles maps each existing path to the list its json file holds.
loadJson(base, filename, sidefiles, tz) ==
  IF filename \in DOMAIN sidefiles
    THEN loadBins(base, sidefiles[filename], tz)
    ELSE Ok(<<>>)

\* os.path.dirname and os.path.join on paths kept as lists of components,
\* each component a list of characters.
Dirname(path) == SubSeq(path, 1, Len(path) - 1)

RECURSIVE PathJoin(_, _)
PathJoin(path, parts) ==
  IF parts = <<>> THEN path
  ELSE IF Head(parts) = <<>> THEN PathJoin(path, Tail(parts))
  ELSE IF Head(parts)[1] = "/" THEN PathJoin(<<Head(parts)>>, Tail(parts))
  ELSE PathJoin(Append(path, Head(parts)), Tail(parts))

\* The path loadRow builds: <dir of the csv>/jsons/<title>/<first char>/<name>
jsonPath(self, jsonName) ==
  PathJoin(Dirname(self.filename),
           << <<"j", "s", "o", "n", "s">>, self.title.chars,
              <<jsonName.chars[1]>>, jsonName.chars >>)

loadRowReturnNoFallback(base, xs) == xs

\* "if oxygens: return oxygens; else: return [base,]"
loadRowReturn(base, xs) ==
  IF ~xs.ok THEN xs
  ELSE IF xs.val # <<>> THEN xs
  ELSE Ok(<<base>>)

\* "if jsonName: ... oxygens = self.loadJson(base, jsonPath)"
loadRowJson(self, base, jsonName, sidefiles, tz) ==
  IF Truthy(jsonName)
    THEN loadJson(base, jsonPath(self, jsonName), sidefiles, tz)
    ELSE Ok(<<>>)

\* loadRow once the row is parsed into base.
loadRowBase(self, base, rowdict, sidefiles, tz) ==
  IF ~base.ok THEN base
  ELSE IF BINNING \notin DOMAIN rowdict THEN Raise("KeyError")
  ELSE loadRowReturn(base.val,
                     loadRowJson(self, base.val, rowdict[BINNING],
                                 sidefiles, tz))

\* self is the parser object: [filename, title].
loadRow(self, rowdict, sidefiles, tz) ==
  loadRowBase(self, parseRow(rowdict), rowdict, sidefiles, tz)

\* Insertion of x into a list sorted by start, after the elements that do
\* not come later than x.
RECURSIVE InsertByStart(_, _)
InsertByStart(x, s) ==
  IF s = <<>> THEN <<x>>
  ELSE IF s[Len(s)].start <= x.start THEN Append(s, x)
  ELSE Append(InsertByStart(x, SubSeq(s, 1, Len(s) - 1)), s[Len(s)])

\* oxygens.sort(key=lambda oxy: oxy.start): list.sort is a stable sort.
RECURSIVE sortByStart(_)
sortByStart(xs) ==
  IF xs = <<>> THEN <<>>
  ELSE InsertByStart(xs[Len(xs)], sortByStart(SubSeq(xs, 1, Len(xs) - 1)))

\* An insertion that puts x before the elements that start when x does.
RECURSIVE InsertBeforeEqual(_, _)
InsertBeforeEqual(x, s) ==
  IF s = <<>> THEN <<x>>
  ELSE IF s[Len(s)].start < x.start THEN Append(s, x)
  ELSE Append(InsertBeforeEqual(x, SubSeq(s, 1, Len(s) - 1)), s[Len(s)])

RECURSIVE sortUnstable(_)
sortUnstable(xs) ==
  IF xs = <<>> THEN <<>>
  ELSE InsertBeforeEqual(xs[Len(xs)],
                         sortUnstable(SubSeq(xs, 1, Len(xs) - 1)))

sortOmitted(xs) == xs

sort(xs) == sortByStart(xs)

\* csv.DictReader: the dict of one line. A line shorter than the header gives
\* None for the missing cells; cells beyond the header go under a key that
\* the parser never reads.
rowdict(fieldnames, line) ==
  [k \in {fieldnames[i] : i \in 1..Len(fieldnames)} |->
     IF (CHOOSE j \in 1..Len(fieldnames) : fieldnames[j] = k) <= Len(line)
       THEN PyStr(line[CHOOSE j \in 1..Len(fieldnames) : fieldnames[j] = k])
       ELSE None]

NotReturned == [ok |-> FALSE, exc |-> ""]

loadHeaderKeepsTitle(self, filename, first) ==
  IF Len(first) < 3
    THEN [ok |-> FALSE, exc |-> "ValueError",
          self |-> [self EXCEPT !.filename = filename]]
    ELSE [ok |-> TRUE,
          self |-> [filename |-> filename,
                    title |-> IF self.title = None THEN PyStr(first[1])
                              ELSE self.title]]

\* The start of load: self.filename is set, then the first line is read and
\* unpacked into self.title and two unused values.
loadHeader(self, filename, first) ==
  IF first = <<>>
    THEN [ok |-> FALSE, exc |-> "StopIteration",
          self |-> [self EXCEPT !.filename = filename]]
  ELSE IF Len(first) < 3
    THEN [ok |-> FALSE, exc |-> "ValueError",
          self |-> [self EXCEPT !.filename = filename]]
    ELSE [ok |-> TRUE,
          self |-> [filename |-> filename, title |-> PyStr(first[1])]]

\* The return of load: the list is sorted and handed to the caller.
Return(f, xs) ==
  /\ pc' = "done"
  /\ accumulated' = xs
  /\ oxygens' = sort(xs)
  /\ result' = Ok(sort(xs))
  /\ history' = IF history[f].ok THEN history
                ELSE [history EXCEPT ![f] = Ok(sort(xs))]

\* An exception leaves load: nothing is returned.
Abort(r) ==
  /\ pc' = "error"
  /\ result' = Raise(r.exc)
  /\ UNCHANGED << oxygens, accumulated, history >>

Opened(f, h) ==
  /\ parser' = h.self
  /\ IF ~h.ok THEN Abort(h)
     ELSE IF csvFiles[f].lines = <<>> THEN Return(f, <<>>)
     ELSE /\ pc' = "rows"
          /\ oxygens' = <<>>
          /\ result' = NotReturned
          /\ UNCHANGED << accumulated, history >>

\* load(filename) up to the first row: open the file, read the first line,
\* build the DictReader. A file without rows is sorted and returned at once.
LoadOpen(f) ==
  /\ pc \in {"idle", "done", "error"}
  /\ Len(calls) < MaxLoads
  /\ calls' = Append(calls, f)
  /\ rowIdx' = 0
  /\ Opened(f, loadHeader(parser, f, csvFiles[f].first))
  /\ UNCHANGED << csvFiles, jsonFiles, localOffset, call >>

\* A loop that catches the exception of a row and goes on with the next.
RowLoadedSkips(row, r, last) ==
  /\ call' = [op |-> "loadRow", self |-> parser, rowdict |-> row, ret |-> r]
  /\ IF last
       THEN Return(parser.filename, IF r.ok THEN oxygens \o r.val ELSE oxygens)
       ELSE /\ oxygens' = IF r.ok THEN oxygens \o r.val ELSE oxygens
            /\ UNCHANGED << pc, result, accumulated, history >>

\* The row has gone through loadRow, which returned or raised r.
RowLoaded(row, r, last) ==
  /\ call' = [op |-> "loadRow", self |-> parser, rowdict |-> row, ret |-> r]
  /\ IF ~r.ok THEN Abort(r)
     ELSE IF last THEN Return(parser.filename, oxygens \o r.val)
     ELSE /\ oxygens' = oxygens \o r.val
          /\ UNCHANGED << pc, result, accumulated, history >>

NextRow(row, last) ==
  RowLoaded(row, loadRow(parser, row, jsonFiles, localOffset), last)

\* One turn of the loop of load: the next row goes through loadRow; after the
\* last row the list is sorted and returned. An exception ends load.
LoadNextRow ==
  /\ pc = "rows"
  /\ rowIdx' = rowIdx + 1
  /\ NextRow(rowdict(csvFiles[parser.filename].fieldnames,
                     csvFiles[parser.filename].lines[rowIdx + 1]),
             rowIdx + 1 = Len(csvFiles[parser.filename].lines))
  /\ UNCHANGED << csvFiles, jsonFiles, localOffset, parser, calls >>

\* A caller calls load with the name of one of the files.
Load == \E f \in DOMAIN csvFiles : LoadOpen(f)

Next == Load \/ LoadNextRow

(***************************************************************************)
(* The inputs.                                                             *)
(***************************************************************************)
\* The text "1970-01-<dd> <hh>:00:00.000"
TimeText(dd, hh) ==
  <<"1", "9", "7", "0", "-", "0", "1", "-">> \o dd \o <<" ">> \o hh
    \o <<":", "0", "0", ":", "0", "0", ".", "0", "0", "0">>

T1 == TimeText(<<"0", "2">>, <<"0", "0">>)
T2 == TimeText(<<"0", "2">>, <<"0", "1">>)
T3 == TimeText(<<"0", "2">>, <<"0", "2">>)
\* No fraction of a second: not in the format.
TBad == <<"1", "9", "7", "0", "-", "0", "1", "-", "0", "2", " ",
          "0", "0", ":", "0", "0", ":", "0", "0">>

Empty == <<>>
NameA1 == <<"a", "1">>
Title1 == <<"T", "1">>
Title2 == <<"T", "2">>
Jsons == <<"j", "s", "o", "n", "s">>

FieldNames == << START_TIME, END_TIME, MIN_SPO2, MAX_SPO2, SPO2, HEART_RATE,
                 BINNING, LOW_DURATION >>
\* A header without the low_duration column.
FieldNamesShort == SubSeq(FieldNames, 1, 7)

Line(start, mn, mx, avg, bin) ==
  << start, T3, mn, mx, avg, <<"6", "0">>, bin, Empty >>

\* The lines of the csv files of Spec.
MainLines ==
  { Line(T2, Empty, Empty, <<"9", "8">>, Empty),
    Line(T2, <<"8", "8">>, <<"9", "9">>, Empty, Empty),
    Line(T1, Empty, Empty, <<"9", "7">>, NameA1),
    Line(TBad, Empty, Empty, <<"9", "8">>, Empty) }

SeqsUpTo(S, n) == UNION {[1..k -> S] : k \in 0..n}

PathA == << <<"A">>, <<"o", ".", "c", "s", "v">> >>
PathB == << <<"B">>, <<"o", ".", "c", "s", "v">> >>
PathC == << <<"C">>, <<"o", ".", "c", "s", "v">> >>

\* The side-file of name below the directory dir, for the dataset title.
SidePath(dir, title, name) == dir \o << Jsons, title, <<name[1]>>, name >>

Record(start, spo2, mn, mx) ==
  [start_time |-> PyInt(start), end_time |-> PyInt(start + 60000),
   spo2 |-> PyInt(spo2), spo2_min |-> PyInt(mn), spo2_max |-> PyInt(mx)]

\* 1970-01-02 00:00:00 and 01:00:00 UTC in epoch milliseconds.
Ms1 == 24 * 3600 * 1000
Ms2 == 25 * 3600 * 1000

\* The contents of the json files of Spec.
MainBins ==
  { << Record(Ms2, 0, 90, 95), Record(Ms1, 97, 0, 0) >>,
    << Record(Ms1, 0, 0, 0), Record(Ms1, 0, 91, 96) >>,
    << Record(Ms2, 0, 0, 0) >> }

MainJsonFiles ==
  { << >> } \cup
  { (SidePath(<< <<"A">> >>, Title1, NameA1) :> b) : b \in MainBins } \cup
  { (SidePath(<< <<"A">> >>, Title1, NameA1) :> b
     @@ SidePath(<< <<"B">> >>, Title2, NameA1) :> << Record(Ms1, 96, 0, 0) >>)
     : b \in MainBins }

Offsets == {0, 3600000}

Init ==
  /\ \E lines \in SeqsUpTo(MainLines, MaxRows),
        names \in {FieldNames, FieldNamesShort} :
       csvFiles =
         (PathA :> [first |-> <<Title1, <<"1">>, <<"2">> >>,
                    fieldnames |-> names, lines |-> lines]
          @@ PathB :> [first |-> <<Title2, <<"1">>, <<"2">> >>,
                       fieldnames |-> FieldNames,
                       lines |-> << Line(T1, Empty, Empty, <<"9", "5">>, NameA1) >>]
          @@ PathC :> [first |-> <<Title1, <<"1">> >>,
                       fieldnames |-> FieldNames, lines |-> << >>])
  /\ jsonFiles \in MainJsonFiles
  /\ localOffset \in Offsets
  /\ parser = [filename |-> None, title |-> None]
  /\ pc = "idle"
  /\ rowIdx = 0
  /\ oxygens = << >>
  /\ result = NotReturned
  /\ accumulated = << >>
  /\ calls = << >>
  /\ history = [f \in {PathA, PathB, PathC} |-> NotReturned]
  /\ call = [op |-> "none"]

Spec == Init /\ [][Next]_vars

(***************************************************************************)
(* The methods called on their own, on a parser that a load of an empty    *)
(* file at PathA has left behind. The methods keep no state between calls, *)
(* so a behaviour is one call.                                             *)
(***************************************************************************)
NumTexts == { Empty, <<"0">>, <<"0", ".", "0">>, <<"9", "5">>,
              <<"9", "7", ".", "5">> }

UnitParseRows ==
  { rowdict(names, << s, T3, mn, mx, avg, hr, Empty, low >>) :
      names \in {FieldNames, FieldNamesShort}, s \in {T1, TBad},
      mn \in NumTexts, mx \in NumTexts, avg \in NumTexts,
      hr \in {Empty, <<"0">>, <<"6", "0">>},
      low \in {Empty, <<"0">>, <<"x">>} }

\* The base records parseRow can hand to loadJson and parseJson.
UnitBases == { parseRow(r).val : r \in {q \in UnitParseRows : parseRow(q).ok} }

UnitRecords ==
  { Record(st, a, mn, mx) :
      st \in {Ms1, Ms2}, a \in {0, 97}, mn \in {0, 90}, mx \in {0, 95} }
  \cup { [start_time |-> PyInt(Ms1), end_time |-> PyInt(Ms2)] }

UnitSidePath == SidePath(<< <<"A">> >>, Title1, NameA1)

SmallRecords ==
  { Record(Ms1, a, mn, mx) : a \in {0, 97}, mn \in {0, 90}, mx \in {0, 95} }
  \cup { [start_time |-> PyInt(Ms1), end_time |-> PyInt(Ms2)] }

UnitJsonFiles ==
  { << >> } \cup { (UnitSidePath :> b) : b \in SeqsUpTo(SmallRecords, MaxRecs) }

UnitLoadRows ==
  { rowdict(FieldNames, << s, T3, mm[1], mm[2], avg, <<"6", "0">>, bin, Empty >>) :
      s \in {T1, TBad},
      mm \in { <<Empty, Empty>>, << <<"8", "8">>, <<"9", "9">> >> },
      avg \in {Empty, <<"0">>, <<"9", "8">>},
      bin \in {Empty, NameA1, <<"b", "2">>} }

SmallBases == { parseRow(r).val : r \in {q \in UnitLoadRows : parseRow(q).ok} }

UnitFrame == << csvFiles, localOffset, parser, pc, rowIdx, oxygens, result,
                accumulated, calls, history >>

CallParseRow ==
  /\ call.op = "none"
  /\ \E row \in UnitParseRows :
       /\ call' = [op |-> "parseRow", rowdict |-> row, ret |-> parseRow(row)]
       /\ UNCHANGED << UnitFrame, jsonFiles >>

CallParseJson ==
  /\ call.op = "none"
  /\ \E base \in UnitBases, record \in UnitRecords :
       /\ call' = [op |-> "parseJson", base |-> base, record |-> record,
                   ret |-> parseJson(base, record, localOffset)]
       /\ UNCHANGED << UnitFrame, jsonFiles >>

\* The caller's json files are what they are at the time of the call.
CallLoadJson ==
  /\ call.op = "none"
  /\ \E base \in SmallBases, fs \in UnitJsonFiles :
       /\ jsonFiles' = fs
       /\ call' = [op |-> "loadJson", base |-> base, filename |-> UnitSidePath,
                   ret |-> loadJson(base, UnitSidePath, fs, localOffset)]
       /\ UNCHANGED UnitFrame

CallLoadRow ==
  /\ call.op = "none"
  /\ \E row \in UnitLoadRows, fs \in UnitJsonFiles :
       /\ jsonFiles' = fs
       /\ call' = [op |-> "loadRow", self |-> parser, rowdict |-> row,
                   ret |-> loadRow(parser, row, fs, localOffset)]
       /\ UNCHANGED UnitFrame

NextUnit == CallParseRow \/ CallParseJson \/ CallLoadJson \/ CallLoadRow

InitUnit ==
  /\ csvFiles = (PathA :> [first |-> <<Title1, <<"1">>, <<"2">> >>,
                           fieldnames |-> FieldNames, lines |-> << >>])
  /\ jsonFiles = << >>
  /\ localOffset \in Offsets
  /\ parser = [filename |-> PathA, title |-> PyStr(Title1)]
  /\ pc = "done"
  /\ rowIdx = 0
  /\ oxygens = << >>
  /\ result = Ok(<< >>)
  /\ accumulated = << >>
  /\ calls = << PathA >>
  /\ history = [f \in {PathA} |-> Ok(<< >>)]
  /\ call = [op |-> "none"]

SpecUnit == InitUnit /\ [][NextUnit]_vars

(***************************************************************************)
(* Properties of the methods, on the last call.                            *)
(***************************************************************************)
\* The row, the base record, the reference and the side-file of a loadRow call.
CallBase == parseRow(call.rowdict).val
CallRef == call.rowdict[BINNING]
CallPath ==
  SidePath(Dirname(call.self.filename), call.self.title.chars, CallRef.chars)
CallBins == jsonFiles[CallPath]

\* loadRow was called on a row that parses and that names a side-file.
LoadRowCalled ==
  /\ call.op = "loadRow"
  /\ parseRow(call.rowdict).ok
  /\ BINNING \in DOMAIN call.rowdict

\* The record of a side-file with the three readings, none of them truthy.
ZeroRecord(rec) ==
  /\ {"start_time", "end_time", "spo2", "spo2_min", "spo2_max"} \subseteq DOMAIN rec
  /\ ~Truthy(rec["spo2"]) /\ ~Truthy(rec["spo2_min"]) /\ ~Truthy(rec["spo2_max"])

AllZero(bins) == \A i \in 1..Len(bins) : ZeroRecord(bins[i])

\* No record of the side-file gives a record that is kept.
NoneKept(base, bins) ==
  \A i \in 1..Len(bins) :
    /\ parseJson(base, bins[i], localOffset).ok
    /\ ~sufficient(parseJson(base, bins[i], localOffset).val)

\* C2: loadRow returns exactly the base record parseRow gives when the
\* reference is empty, when the side-file does not exist, and when the
\* side-file gives no record that is kept.
C2_BaseReturned ==
  LoadRowCalled =>
    ((\/ ~Truthy(CallRef)
      \/ CallPath \notin DOMAIN jsonFiles
      \/ NoneKept(CallBase, CallBins))
     => call.ret = Ok(<< CallBase >>))

C2_Witness ==
  /\ LoadRowCalled
  /\ Truthy(CallRef)
  /\ CallPath \in DOMAIN jsonFiles
  /\ Len(CallBins) >= 2
  /\ NoneKept(CallBase, CallBins)
  /\ call.ret = Ok(<< CallBase >>)

\* The row of the call names a side-file that exists and whose records all
\* have spo2, spo2_min and spo2_max zero.
ZeroSideFile ==
  /\ LoadRowCalled
  /\ Truthy(CallRef)
  /\ CallPath \in DOMAIN jsonFiles
  /\ AllZero(CallBins)

\* C3 as stated: a row whose side-file exists and has no truthy reading in
\* any record yields no measurement at all.
C3_RowYieldsNothing == ZeroSideFile => call.ret = Ok(<< >>)

\* The base with the times of the record (local time relabelled as UTC) and
\* without min and max.
ZeroDerived(base, rec) ==
  [base EXCEPT !.start = rec["start_time"].val + localOffset,
               !.end = rec["end_time"].val + localOffset,
               !.min = None, !.max = None]

\* C3 amended: such a row yields one measurement for each record of the
\* side-file (the base with the record's times, min and max absent, the
\* average of the base) when the base has a truthy average and the side-file
\* is not empty, and otherwise exactly the base record; it never yields
\* nothing.
C3_ZeroSideFile ==
  ZeroSideFile =>
    /\ call.ret.ok
    /\ call.ret.val # << >>
    /\ call.ret.val =
         IF Truthy(CallBase.avg) /\ CallBins # << >>
           THEN [i \in 1..Len(CallBins) |-> ZeroDerived(CallBase, CallBins[i])]
           ELSE << CallBase >>

C3_Witness ==
  /\ ZeroSideFile
  /\ Truthy(CallBase.avg)
  /\ CallBase.min # None
  /\ Len(CallBins) >= 2
  /\ Len(call.ret.val) = Len(CallBins)
  /\ call.ret.val[1].min = None

NumericFields ==
  { <<MIN_SPO2, "min">>, <<MAX_SPO2, "max">>, <<SPO2, "avg">>,
    <<HEART_RATE, "heart">>, <<LOW_DURATION, "low_duration">> }

\* C4: every numeric field of a row whose text is empty or parses to zero is
\* absent in the measurement, and a text that parses to a number other than
\* zero gives that number.
C4_ZeroMeansAbsent ==
  (call.op = "parseRow" /\ call.ret.ok) =>
    \A kf \in NumericFields :
      IF \/ ~Truthy(call.rowdict[kf[1]])
         \/ Float(call.rowdict[kf[1]]).val.val = 0
        THEN call.ret.val[kf[2]] = None
        ELSE call.ret.val[kf[2]] = Float(call.rowdict[kf[1]]).val

\* parseJson was called with a record whose spo2_min and spo2_max are truthy
\* and whose spo2 is zero.
MinMaxRecord ==
  /\ call.op = "parseJson"
  /\ {"start_time", "end_time", "spo2", "spo2_min", "spo2_max"}
       \subseteq DOMAIN call.record
  /\ Truthy(call.record["spo2_min"])
  /\ Truthy(call.record["spo2_max"])
  /\ ~Truthy(call.record["spo2"])

MinMaxSet ==
  /\ call.ret.ok
  /\ call.ret.val.min = PyFloat(Units * call.record["spo2_min"].val)
  /\ call.ret.val.max = PyFloat(Units * call.record["spo2_max"].val)

RecordMidpoint ==
  PyFloat((Units * call.record["spo2_min"].val
           + Units * call.record["spo2_max"].val) \div 2)

\* C5 as stated: for every base, min and max are the record's and the average
\* is their midpoint.
C5_AlwaysMidpoint ==
  MinMaxRecord => (MinMaxSet /\ call.ret.val.avg = RecordMidpoint)

\* C5 amended: min and max are the record's; the average is their midpoint
\* when the base has no truthy average (absent or zero), and the average of
\* the base otherwise.
C5_MidpointUnlessInherited ==
  MinMaxRecord =>
    /\ MinMaxSet
    /\ call.ret.val.avg =
         IF Truthy(call.base.avg) THEN call.base.avg ELSE RecordMidpoint

\* min 90 and max 95 on a base without average: average 92.5
C5_Witness ==
  /\ MinMaxRecord
  /\ call.base.avg = None
  /\ call.record["spo2_min"].val = 90
  /\ call.record["spo2_max"].val = 95
  /\ 2 * call.ret.val.avg.val = 185 * Units

\* C6: the heart rate and the low duration of the result of parseJson are
\* those of the base for every record; for a record whose three readings are
\* zero, min and max are absent and the average is that of the base.
C6_Inherited ==
  (call.op = "parseJson" /\ call.ret.ok) =>
    /\ call.ret.val.heart = call.base.heart
    /\ call.ret.val.low_duration = call.base.low_duration
    /\ ZeroRecord(call.record) =>
         /\ call.ret.val.min = None
         /\ call.ret.val.max = None
         /\ call.ret.val.avg = call.base.avg

C6_Witness ==
  /\ call.op = "parseJson"
  /\ call.ret.ok
  /\ ZeroRecord(call.record)
  /\ Truthy(call.base.min) /\ Truthy(call.base.max)
  /\ Truthy(call.base.avg) /\ Truthy(call.base.heart)
  /\ call.ret.val.min = None
  /\ call.ret.val.avg = call.base.avg

\* Sufficient as the data model words it: min and max both present, or the
\* average present.
PresentSufficient(oxy) ==
  (oxy.min # None /\ oxy.max # None) \/ oxy.avg # None

\* The derived records that are sufficient, in the order of the side-file.
RECURSIVE SufficientDerived(_, _)
SufficientDerived(base, bins) ==
  IF bins = << >> THEN << >>
  ELSE IF PresentSufficient(parseJson(base, Head(bins), localOffset).val)
    THEN << parseJson(base, Head(bins), localOffset).val >>
           \o SufficientDerived(base, Tail(bins))
    ELSE SufficientDerived(base, Tail(bins))

\* C7: loadJson of an existing side-file returns exactly the derived records
\* that have min and max both present or the average present, in the order of
\* the side-file; when there are any, loadRow returns them, without the base.
C7_KeepsSufficient ==
  /\ (call.op = "loadJson" /\ call.ret.ok /\ call.filename \in DOMAIN jsonFiles)
       => call.ret.val = SufficientDerived(call.base, jsonFiles[call.filename])
  /\ (LoadRowCalled /\ call.ret.ok /\ Truthy(CallRef)
        /\ CallPath \in DOMAIN jsonFiles)
       => (SufficientDerived(CallBase, CallBins) # << >>
             => call.ret.val = SufficientDerived(CallBase, CallBins))

(***************************************************************************)
(* Properties of load.                                                     *)
(***************************************************************************)
\* C1: the list load returns is sorted by start, non-decreasing.
C1_Sorted ==
  pc = "done" =>
    /\ result.ok
    /\ \A i \in 1..(Len(result.val) - 1) :
         result.val[i].start <= result.val[i + 1].start

C1_Witness ==
  /\ pc = "done"
  /\ Len(result.val) >= 3
  /\ accumulated # result.val
  /\ \E i \in 1..(Len(result.val) - 1) :
       result.val[i].start < result.val[i + 1].start

\* The measurements of xs that start at t, in the order of xs.
StartingAt(xs, t) ==
  LET At(x) == x.start = t IN SelectSeq(xs, At)

\* C8: measurements with the same start come out of load in the order in
\* which they were accumulated (row order, then record order).
C8_Stable ==
  pc = "done" =>
    \A t \in {accumulated[i].start : i \in 1..Len(accumulated)} :
      StartingAt(result.val, t) = StartingAt(accumulated, t)

C8_Witness ==
  /\ pc = "done"
  /\ accumulated # result.val
  /\ \E i \in 1..(Len(result.val) - 1) :
       /\ result.val[i].start = result.val[i + 1].start
       /\ result.val[i] # result.val[i + 1]

\* The row the loop of load takes next.
PendingRow ==
  rowdict(csvFiles[parser.filename].fieldnames,
          csvFiles[parser.filename].lines[rowIdx + 1])

\* A required field is missing from the row, or a time is not in the format.
MalformedRow(row) ==
  \/ \E k \in {FieldNames[i] : i \in 1..Len(FieldNames)} : k \notin DOMAIN row
  \/ ~parseSamsungTime(row[START_TIME]).ok
  \/ ~parseSamsungTime(row[END_TIME]).ok

\* C9: a row that fails to parse ends load in an error: nothing is returned,
\* and after the error no row is taken until load is called again.
C9_Aborts ==
  [][ /\ (pc = "rows" /\ MalformedRow(PendingRow))
         => (pc' = "error" /\ ~result'.ok /\ result'.exc # ""
             /\ history' = history)
      /\ (pc = "error" => Len(calls') > Len(calls)) ]_vars

\* An error at the second row, after a first row was accumulated.
C9_Witness ==
  /\ pc = "error"
  /\ rowIdx = 2
  /\ oxygens # << >>
  /\ ~result.ok

\* What load returns for the file f on a parser that has loaded nothing yet.
RECURSIVE FreshRows(_, _, _)
FreshRows(fresh, names, lines) ==
  IF lines = << >> THEN << >>
  ELSE FreshRows(fresh, names, SubSeq(lines, 1, Len(lines) - 1))
         \o loadRow(fresh, rowdict(names, lines[Len(lines)]),
                    jsonFiles, localOffset).val

FreshLoad(f) ==
  sort(FreshRows([filename |-> f, title |-> PyStr(csvFiles[f].first[1])],
                 csvFiles[f].fieldnames, csvFiles[f].lines))

\* C10: what load returns for a file is what the first load of the file
\* returned, and what a new parser returns for it, whatever was loaded before.
C10_Independent ==
  pc = "done" =>
    /\ result = history[parser.filename]
    /\ result = Ok(FreshLoad(parser.filename))

\* The file at PathA loaded, then the file at PathB (other directory, other
\* title), then the file at PathA again, with a side-file expanded.
C10_Witness ==
  /\ pc = "done"
  /\ calls = << PathA, PathB, PathA >>
  /\ SidePath(<< <<"A">> >>, Title1, NameA1) \in DOMAIN jsonFiles
  /\ \E i \in 1..Len(csvFiles[PathA].lines) : csvFiles[PathA].lines[i][7] = NameA1
  /\ Len(result.val) >= 2

====
